---- MODULE Spec2Model ----
(***************************************************************************)
(* File-Organizer-CLI (src/main.py): the organize and undo commands over a *)
(* target directory, as a state machine.                                   *)
(*                                                                         *)
(* A file name is a sequence of atoms.  An atom is a piece of text that    *)
(* holds no dot (dot = FALSE), or a dot followed by text that holds no dot *)
(* (dot = TRUE), so pathlib's suffix and stem are computed on it as they   *)
(* are on the string.  A path is the sequence of names below the target.   *)
(***************************************************************************)
EXTENDS Integers, Sequences, FiniteSets, TLC

\* ------------------------------------------------------------------ bounds
\* Most files in the target tree when the first command starts.
MaxFiles == 3
\* Most live commands (organize or undo) that enter their loop.  A dry run
\* leaves the target as it found it (DryRunNoOp below), so what can follow a
\* dry run is what can follow the state it started in: the commands after a
\* dry run are not explored a second time.
MaxRuns == 2

\* ------------------------------------------------------------------- names
Txt(s) == [dot |-> FALSE, s |-> s]
Dot(s) == [dot |-> TRUE, s |-> s]

\* pathlib.PurePath.suffix: the last dot-part of the name, "" when the name
\* has none or starts with it.
Suffix(name) ==
    IF Len(name) >= 2 /\ name[Len(name)].dot THEN name[Len(name)].s ELSE ""

\* pathlib.PurePath.stem: the name without its suffix.
Stem(name) ==
    IF Suffix(name) = "" THEN name ELSE SubSeq(name, 1, Len(name) - 1)

SufAtoms(name) ==
    IF Suffix(name) = "" THEN << >> ELSE << name[Len(name)] >>

Name(path) == path[Len(path)]
Parent(path) == SubSeq(path, 1, Len(path) - 1)
WithName(path, name) == Append(Parent(path), name)

\* str.lower on the extensions the model uses.
Lower(ext) ==
    CASE ext = ".TXT" -> ".txt"
      [] ext = ".PNG" -> ".png"
      [] OTHER -> ext

File_TYPES ==
    [ images    |-> {".jpg", ".jpeg", ".png", ".gif", ".bmp", ".tiff", ".webp",
                     ".svg", ".heic"},
      documents |-> {".pdf", ".doc", ".docx", ".txt", ".rtf", ".md", ".ppt",
                     ".pptx", ".xls", ".xlsx", ".csv"},
      videos    |-> {".mp4", ".mkv", ".avi", ".mov", ".wmv", ".flv", ".webm"},
      audio     |-> {".mp3", ".wav", ".aac", ".flac", ".ogg", ".m4a"},
      archives  |-> {".zip", ".rar", ".7z", ".tar", ".gz", ".bz2"},
      code      |-> {".py", ".js", ".ts", ".tsx", ".jsx", ".java", ".c", ".cpp",
                     ".cs", ".go", ".rb", ".php", ".html", ".css", ".json",
                     ".sql", ".sh", ".bat"},
      design    |-> {".psd", ".ai", ".xd", ".fig", ".sketch"} ]

Categories == DOMAIN File_TYPES \cup {"others"}

LOG_NAME == << Dot(".organizer_log"), Dot(".json") >>
REPORT_NAME == << Dot(".organizer_report"), Dot(".json") >>
DUP_DIR == << Txt("duplicates") >>

detect_category(file_path) ==
    LET ext == Lower(Suffix(Name(file_path)))
        hit == {c \in DOMAIN File_TYPES : ext \in File_TYPES[c]}
    IN  IF hit = {} THEN "others" ELSE CHOOSE c \in hit : TRUE

\* ------------------------------------------------------------- the platform
\* The two months a file's st_ctime can fall in: one before the run, and the
\* month the commands run in.  (year, month) as strftime("%Y"), ("%m") give.
Dates == [old |-> << "2021", "03" >>, now |-> << "2026", "11" >>]

VARIABLES
    fs,           \* path |-> file, the regular files below the target
    dirs,         \* the directories below the target
    log,          \* .organizer_log.json: [exists, moves]
    report,       \* .organizer_report.json: [exists, summary, ...]
    touch,        \* the platform: does a rename set the file's st_ctime to now
    pc,           \* "idle", "organize" (in its loop) or "undo" (in its loop)
    args,         \* the running or last command: [command, by_date, dry_run]
    files,        \* organize: list(iter_files(target))
    i,            \* organize: index of the next file of files
    seen_hashes,  \* organize: contents seen in this run
    summary,      \* organize: category |-> count (0: no key)
    duplicates,   \* organize: the {src, dst} of the duplicates
    moves_log,    \* organize: the {src, dst} of the live moves
    moves,        \* undo: the log's moves
    j,            \* undo: index of the next record of reversed(moves)
    reverted,     \* undo: count of reverted records
    outcome,      \* how the last command ended: "none", "returned", "raised"
    runs,         \* commands that entered their loop so far
    fs0,          \* fs when the running or last command started
    prev,         \* args, outcome and fs0 of the command before it
    born          \* [id, c] of every file the target was given

vars == << fs, dirs, log, report, touch, pc, args, files, i, seen_hashes,
           summary, duplicates, moves_log, moves, j, reverted, outcome, runs,
           fs0, prev, born >>

\* Path.exists() of a path below the target.
Exists(p, f, d) == p = << >> \/ p \in DOMAIN f \/ p \in d

Prefixes(p) == {SubSeq(p, 1, k) : k \in 1..Len(p)}

\* Path.mkdir(parents=True, exist_ok=True) raises when the path or one of its
\* parents is a regular file.
MkdirRaises(p, f) == Prefixes(p) \cap DOMAIN f # {}

Mkdir(p, d) == d \cup Prefixes(p)

\* An ensure_dir that makes the directory in a dry run too.
ensure_dir_in_dry_run(path, dry, f, d) ==
    IF MkdirRaises(path, f) THEN [raised |-> TRUE, dirs |-> d]
    ELSE [raised |-> FALSE, dirs |-> Mkdir(path, d)]

\* ensure_dir: [raised, dirs].
ensure_dir(path, dry, f, d) ==
    IF dry THEN [raised |-> FALSE, dirs |-> d]
    ELSE IF MkdirRaises(path, f) THEN [raised |-> TRUE, dirs |-> d]
    ELSE [raised |-> FALSE, dirs |-> Mkdir(path, d)]

\* os.rename of a file: its st_ctime is kept or set to now, as the platform does.
Renamed(file) == [file EXCEPT !.t = IF touch THEN "now" ELSE @]

\* A move that leaves the source behind: a copy.
ShutilCopy(src, dst, f) ==
    [p \in DOMAIN f \cup {dst} |-> IF p = dst THEN Renamed(f[src]) ELSE f[p]]

\* shutil.move(src, dst) of a regular file to a path in an existing directory.
ShutilMove(src, dst, f) ==
    [p \in (DOMAIN f \ {src}) \cup {dst} |->
        IF p = dst THEN Renamed(f[src]) ELSE f[p]]

Paren(n) == Txt(" (" \o ToString(n) \o ")")

\* dst.with_name(f"{stem} ({i}){suf}")
Candidate(dst, n) ==
    WithName(dst, Stem(Name(dst)) \o << Paren(n) >> \o SufAtoms(Name(dst)))

RECURSIVE FirstCandidate(_, _, _, _)
FirstCandidate(dst, n, f, d) ==
    IF ~Exists(Candidate(dst, n), f, d) THEN Candidate(dst, n)
    ELSE FirstCandidate(dst, n + 1, f, d)

\* A move_file without its collision loop: it moves onto what is at dst.
OverwritingTarget(dst, f, d) == dst

\* The path move_file moves to: dst, or the first free "stem (i)suf".
MoveTarget(dst, f, d) ==
    IF Exists(dst, f, d) THEN FirstCandidate(dst, 1, f, d) ELSE dst

\* move_file: [raised, fs, dirs].
move_file(src, dst, dry, f, d) ==
    LET e == ensure_dir(Parent(dst), dry, f, d)
    IN  IF dry THEN [raised |-> FALSE, fs |-> f, dirs |-> d]
        ELSE IF e.raised THEN [raised |-> TRUE, fs |-> f, dirs |-> d]
        ELSE [raised |-> FALSE,
              fs |-> ShutilMove(src, MoveTarget(dst, f, e.dirs), f),
              dirs |-> e.dirs]

\* ------------------------------------------------------------- target trees
\* The paths a target tree is drawn from; a file's id is its place here.
InitPaths ==
    << << << Txt("a"), Dot(".txt") >> >>,
       << << Txt("sub") >>, << Txt("a"), Dot(".txt") >> >>,
       << << Txt("sub") >>, << Txt("b"), Dot(".TXT") >> >>,
       << DUP_DIR, << Txt("b"), Dot(".TXT") >> >>,
       << DUP_DIR, << Txt("old") >>, << Txt("a"), Dot(".txt") >> >>,
       << << Txt("documents") >> >>,
       << << Txt("secret"), Dot(".pdf") >> >> >>

\* The path whose file cannot be read (md5sum raises on it).
Unreadable == { << << Txt("secret"), Dot(".pdf") >> >> }

\* Contents are opaque: only their equality is observed (through md5sum).
NumContents == 3

IdOf(p) == CHOOSE k \in 1..Len(InitPaths) : InitPaths[k] = p

\* Contents up to renaming: the k-th distinct content, in id order, is k.
Canonical(c, P) ==
    \A p \in P : c[p] <= 1 + Cardinality({c[q] : q \in {r \in P : IdOf(r) < IdOf(p)}})

Trees ==
    {P \in SUBSET {InitPaths[k] : k \in 1..Len(InitPaths)} :
        /\ Cardinality(P) <= MaxFiles
        /\ \A p, q \in P : p # q => p \notin Prefixes(q)}

NoArgs == [command |-> "none", by_date |-> FALSE, dry_run |-> FALSE]

NoReport ==
    [exists |-> FALSE, summary |-> [c \in Categories |-> 0],
     duplicates_moved |-> 0, moves_total |-> 0, by_date |-> FALSE]

Init ==
    /\ \E P \in Trees : \E c \in [P -> 1..NumContents] :
          /\ Canonical(c, P)
          /\ fs = [p \in P |-> [id |-> IdOf(p), c |-> c[p],
                                r |-> p \notin Unreadable, t |-> "old"]]
          /\ dirs = UNION {Prefixes(Parent(p)) : p \in P}
    /\ touch \in BOOLEAN
    /\ log = [exists |-> FALSE, moves |-> << >>]
    /\ report = NoReport
    /\ pc = "idle"
    /\ args = NoArgs
    /\ files = << >>
    /\ i = 0
    /\ seen_hashes = {}
    /\ summary = [c \in Categories |-> 0]
    /\ duplicates = << >>
    /\ moves_log = << >>
    /\ moves = << >>
    /\ j = 0
    /\ reverted = 0
    /\ outcome = "none"
    /\ runs = 0
    /\ fs0 = fs
    /\ prev = [args |-> NoArgs, outcome |-> "none", fs0 |-> fs]
    /\ born = {[id |-> fs[p].id, c |-> fs[p].c] : p \in DOMAIN fs}

\* -------------------------------------------------------------- iter_files
Under(p, dir) == Len(p) > Len(dir) /\ SubSeq(p, 1, Len(dir)) = dir

\* iter_files yields a directory's files where iterdir meets the directory:
\* the files below any directory are next to each other, in any order.
IsWalk(s, d) ==
    \A dir \in d : \A a, b, k \in 1..Len(s) :
        (a < k /\ k < b /\ Under(s[a], dir) /\ Under(s[b], dir))
            => Under(s[k], dir)

Injective(s) == \A a, b \in DOMAIN s : a # b => s[a] # s[b]

\* The lists list(iter_files(target)) can be.
iter_files(f, d) ==
    {s \in {t \in [1..Cardinality(DOMAIN f) -> DOMAIN f] : Injective(t)} :
        IsWalk(s, d)}

\* len(files): the control files are regular files of the target too.  They
\* are skipped by name wherever they come in the list, so the list modelled
\* holds the other files only.
Total(s) == Len(s) + (IF log.exists THEN 1 ELSE 0) + (IF report.exists THEN 1 ELSE 0)

\* A digest that tells every two files apart: no duplicate is ever found.
DigestOfIdentity(file) == file.id + NumContents

\* md5sum: the content is its own digest; raises on a file that cannot be read.
HashRaises(file) == ~file.r
md5sum(file) == file.c

\* date_parts: the year and month directories of the file's st_ctime.
date_parts(file) == << << Txt(Dates[file.t][1]) >>, << Txt(Dates[file.t][2]) >> >>

dup_dir == << DUP_DIR >>

\* ---------------------------------------------------------------- organize
Begin(a) ==
    /\ pc = "idle"
    /\ args' = a
    /\ fs0' = fs
    /\ prev' = [args |-> args, outcome |-> outcome, fs0 |-> fs0]

\* The budget of commands left after this one.
Spent(dry_run) == IF dry_run THEN MaxRuns ELSE runs + 1

\* The per-file skip test of organize's loop.
Skipped(f) ==
    \/ Name(f) \in {LOG_NAME, REPORT_NAME}
    \/ Parent(f) = dup_dir
    \/ Name(f) = DUP_DIR

\* The destination organize computes for a file it classifies.
Destination(f, file, by_date) ==
    IF by_date
    THEN << << Txt(detect_category(f)) >> >> \o date_parts(file) \o << Name(f) >>
    ELSE << << Txt(detect_category(f)) >>, Name(f) >>

\* organize on a target with no file: "No files found", and it returns.
OrganizeNoFiles ==
    /\ pc = "idle"
    /\ Total(<< >>) = 0
    /\ DOMAIN fs = {}
    /\ UNCHANGED vars

\* organize up to its loop: the walk, the locals, ensure_dir(dup_dir).
OrganizeStart(by_date, dry_run, s) ==
    /\ runs < MaxRuns
    /\ Begin([command |-> "organize", by_date |-> by_date, dry_run |-> dry_run])
    /\ Total(s) > 0
    /\ files' = s
    /\ LET e == ensure_dir(dup_dir, dry_run, fs, dirs)
       IN  /\ dirs' = e.dirs
           /\ pc' = IF e.raised THEN "idle" ELSE "organize"
           /\ outcome' = IF e.raised THEN "raised" ELSE "running"
    /\ i' = 1
    /\ seen_hashes' = {}
    /\ summary' = [c \in Categories |-> 0]
    /\ duplicates' = << >>
    /\ moves_log' = << >>
    /\ runs' = Spent(dry_run)
    /\ UNCHANGED << fs, log, report, touch, moves, j, reverted, born >>

\* The file the user puts (see UserPutsFile).
UserFile == [id |-> Len(InitPaths) + 1, c |-> NumContents + 1, r |-> TRUE, t |-> "now"]

External == \E b \in born : b.id = UserFile.id

\* organize --path target [--by-date] [--dry-run], its walk in any order.
OrganizeCommand ==
    /\ pc = "idle"
    /\ runs < MaxRuns
    /\ ~External
    /\ \E s \in iter_files(fs, dirs) : \E by_date, dry_run \in BOOLEAN :
          OrganizeStart(by_date, dry_run, s)

InLoop == pc = "organize" /\ i <= Len(files)

\* A control file, a file of the duplicates directory: continue.
OrganizeSkip ==
    /\ InLoop
    /\ Skipped(files[i])
    /\ i' = i + 1
    /\ UNCHANGED << fs, dirs, log, report, touch, pc, args, files, seen_hashes,
                    summary, duplicates, moves_log, moves, j, reverted,
                    outcome, runs, fs0, prev, born >>

\* md5sum raised: warn and continue.
OrganizeHashError ==
    /\ InLoop
    /\ ~Skipped(files[i])
    /\ HashRaises(fs[files[i]])
    /\ i' = i + 1
    /\ UNCHANGED << fs, dirs, log, report, touch, pc, args, files, seen_hashes,
                    summary, duplicates, moves_log, moves, j, reverted,
                    outcome, runs, fs0, prev, born >>

\* What a call of move_file in the loop leaves: the file system it made and,
\* when it raised, the end of the command with the exception.
Moved(m) ==
    /\ fs' = m.fs
    /\ dirs' = m.dirs
    /\ pc' = IF m.raised THEN "idle" ELSE pc
    /\ outcome' = IF m.raised THEN "raised" ELSE outcome
    /\ i' = IF m.raised THEN i ELSE i + 1

\* The content was seen in this run: move the file to the duplicates directory.
OrganizeDuplicate ==
    /\ InLoop
    /\ ~Skipped(files[i])
    /\ ~HashRaises(fs[files[i]])
    /\ md5sum(fs[files[i]]) \in seen_hashes
    /\ LET f == files[i]
           dst == Append(dup_dir, Name(f))
           m == move_file(f, dst, args.dry_run, fs, dirs)
           rec == [src |-> f, dst |-> dst]
       IN  /\ Moved(m)
           /\ duplicates' = IF m.raised THEN duplicates ELSE Append(duplicates, rec)
           /\ moves_log' = IF m.raised \/ args.dry_run THEN moves_log
                           ELSE Append(moves_log, rec)
    /\ UNCHANGED << log, report, touch, args, files, seen_hashes, summary,
                    moves, j, reverted, runs, fs0, prev, born >>

\* A new content whose file is where organize would put it: count it, continue.
OrganizeInPlace ==
    /\ InLoop
    /\ ~Skipped(files[i])
    /\ ~HashRaises(fs[files[i]])
    /\ md5sum(fs[files[i]]) \notin seen_hashes
    /\ files[i] = Destination(files[i], fs[files[i]], args.by_date)
    /\ seen_hashes' = seen_hashes \cup {md5sum(fs[files[i]])}
    /\ summary' = [summary EXCEPT ![detect_category(files[i])] = @ + 1]
    /\ i' = i + 1
    /\ UNCHANGED << fs, dirs, log, report, touch, pc, args, files, duplicates,
                    moves_log, moves, j, reverted, outcome, runs, fs0, prev, born >>

\* A new content: count it and move the file to its category.
OrganizeMove ==
    /\ InLoop
    /\ ~Skipped(files[i])
    /\ ~HashRaises(fs[files[i]])
    /\ md5sum(fs[files[i]]) \notin seen_hashes
    /\ files[i] # Destination(files[i], fs[files[i]], args.by_date)
    /\ LET f == files[i]
           dst == Destination(f, fs[f], args.by_date)
           m == move_file(f, dst, args.dry_run, fs, dirs)
       IN  /\ Moved(m)
           /\ moves_log' = IF m.raised \/ args.dry_run THEN moves_log
                           ELSE Append(moves_log, [src |-> f, dst |-> dst])
    /\ seen_hashes' = seen_hashes \cup {md5sum(fs[files[i]])}
    /\ summary' = [summary EXCEPT ![detect_category(files[i])] = @ + 1]
    /\ UNCHANGED << log, report, touch, args, files, duplicates, moves, j,
                    reverted, runs, fs0, prev, born >>

\* After the loop: a live run saves the log and the report.  (The report's
\* target, timestamp and elapsed_seconds are left out: nothing reads them.)
OrganizeFinish ==
    /\ pc = "organize"
    /\ i > Len(files)
    /\ log' = IF args.dry_run THEN log
              ELSE [exists |-> TRUE, moves |-> moves_log]
    /\ report' = IF args.dry_run THEN report
                 ELSE [exists |-> TRUE, summary |-> summary,
                       duplicates_moved |-> Len(duplicates),
                       moves_total |-> Len(moves_log),
                       by_date |-> args.by_date]
    /\ pc' = "idle"
    /\ outcome' = "returned"
    /\ UNCHANGED << fs, dirs, touch, args, files, i, seen_hashes, summary,
                    duplicates, moves_log, moves, j, reverted, runs, fs0, prev, born >>

\* -------------------------------------------------------------------- undo
UndoArgs(dry_run) == [command |-> "undo", by_date |-> FALSE, dry_run |-> dry_run]

\* No log file, or a log with no move: nothing to undo.
NothingToUndo == ~log.exists \/ log.moves = << >>

UndoNothing ==
    /\ pc = "idle"
    /\ NothingToUndo
    /\ UNCHANGED vars

\* undo_last up to its loop over reversed(moves).
UndoStart(dry_run) ==
    /\ runs < MaxRuns
    /\ Begin(UndoArgs(dry_run))
    /\ ~NothingToUndo
    /\ moves' = log.moves
    /\ j' = Len(log.moves)
    /\ reverted' = 0
    /\ pc' = "undo"
    /\ outcome' = "running"
    /\ runs' = Spent(dry_run)
    /\ UNCHANGED << fs, dirs, log, report, touch, files, i, seen_hashes,
                    summary, duplicates, moves_log, born >>

\* undo --path target [--dry-run]
UndoCommand ==
    /\ pc = "idle"
    /\ runs < MaxRuns
    /\ \E dry_run \in BOOLEAN : UndoStart(dry_run)

UndoAtom(n) == Dot(".undo" \o (IF n = 1 THEN "" ELSE ToString(n)))

\* final_dst.with_name(f"{stem}.undo{'' if i == 1 else i}{suf}")
UndoCandidate(dst, n) ==
    WithName(dst, Stem(Name(dst)) \o << UndoAtom(n) >> \o SufAtoms(Name(dst)))

RECURSIVE FirstUndoCandidate(_, _, _, _)
FirstUndoCandidate(dst, n, f, d) ==
    IF ~Exists(UndoCandidate(dst, n), f, d) THEN UndoCandidate(dst, n)
    ELSE FirstUndoCandidate(dst, n + 1, f, d)

\* The path undo_last restores to: dst, or the first free "stem.undo[i]suf".
UndoTarget(dst, f, d) ==
    IF Exists(dst, f, d) THEN FirstUndoCandidate(dst, 1, f, d) ELSE dst

\* The record's destination is gone: continue.
UndoSkip ==
    /\ pc = "undo"
    /\ j >= 1
    /\ ~Exists(moves[j].dst, fs, dirs)
    /\ j' = j - 1
    /\ UNCHANGED << fs, dirs, log, report, touch, pc, args, files, i,
                    seen_hashes, summary, duplicates, moves_log, moves,
                    reverted, outcome, runs, fs0, prev, born >>

\* One record of reversed(moves): the file at its dst goes back to its src.
UndoRevert ==
    /\ pc = "undo"
    /\ j >= 1
    /\ Exists(moves[j].dst, fs, dirs)
    /\ LET src == moves[j].dst
           dst == moves[j].src
           e == ensure_dir(Parent(dst), args.dry_run, fs, dirs)
       IN  /\ dirs' = e.dirs
           /\ fs' = IF e.raised \/ args.dry_run THEN fs
                    ELSE ShutilMove(src, UndoTarget(dst, fs, e.dirs), fs)
           /\ pc' = IF e.raised THEN "idle" ELSE pc
           /\ outcome' = IF e.raised THEN "raised" ELSE outcome
           /\ j' = IF e.raised THEN j ELSE j - 1
           /\ reverted' = IF e.raised THEN reverted ELSE reverted + 1
    /\ UNCHANGED << log, report, touch, args, files, i, seen_hashes, summary,
                    duplicates, moves_log, moves, runs, fs0, prev, born >>

\* An undo that leaves the log as it read it.
KeptLog(dry_run) == log

\* save_json(log_path, {"moves": []}) of a live undo.
ClearedLog(dry_run) ==
    IF dry_run THEN log ELSE [exists |-> TRUE, moves |-> << >>]

\* After the loop: a live undo saves an empty log.
UndoFinish ==
    /\ pc = "undo"
    /\ j = 0
    /\ log' = ClearedLog(args.dry_run)
    /\ pc' = "idle"
    /\ outcome' = "returned"
    /\ UNCHANGED << fs, dirs, report, touch, args, files, i, seen_hashes,
                    summary, duplicates, moves_log, moves, j, reverted, runs,
                    fs0, prev, born >>

\* ---------------------------------------------------------------- the user
\* Before an undo the user may put a file where organize took one from: the
\* case undo_last's ".undo" names are for.  Once, with a new content; organize
\* is explored on the trees of Init and on what the commands make of them.
UserPutsFile ==
    /\ pc = "idle"
    /\ runs < MaxRuns
    /\ ~External
    /\ \E k \in 1..Len(log.moves) :
          /\ ~Exists(log.moves[k].src, fs, dirs)
          /\ Prefixes(Parent(log.moves[k].src)) \subseteq dirs
          /\ fs' = [p \in DOMAIN fs \cup {log.moves[k].src} |->
                       IF p \in DOMAIN fs THEN fs[p] ELSE UserFile]
    /\ born' = born \cup {[id |-> UserFile.id, c |-> UserFile.c]}
    /\ UNCHANGED << dirs, log, report, touch, pc, args, files, i, seen_hashes,
                    summary, duplicates, moves_log, moves, j, reverted,
                    outcome, runs, fs0, prev >>

\* ----------------------------------------------------------- specification
Next ==
    \/ UserPutsFile
    \/ OrganizeNoFiles
    \/ OrganizeCommand
    \/ OrganizeSkip
    \/ OrganizeHashError
    \/ OrganizeDuplicate
    \/ OrganizeInPlace
    \/ OrganizeMove
    \/ OrganizeFinish
    \/ UndoNothing
    \/ UndoCommand
    \/ UndoSkip
    \/ UndoRevert
    \/ UndoFinish

Spec == Init /\ [][Next]_vars

TypeOK ==
    /\ pc \in {"idle", "organize", "undo"}
    /\ \A p \in DOMAIN fs : p \notin dirs /\ Prefixes(Parent(p)) \subseteq dirs
    /\ runs \in 0..MaxRuns

\* ------------------------------------------------------------------ claims
\* A command of the given name and mode has run to its end and returned.
Returned(command, dry_run) ==
    /\ pc = "idle"
    /\ outcome = "returned"
    /\ args.command = command
    /\ args.dry_run = dry_run

\* "stem (n)suf" and "stem.undo[n]suf" as the claims write them.
NumberedName(name, n) ==
    Stem(name) \o << Txt(" (" \o ToString(n) \o ")") >> \o SufAtoms(name)

UndoName(name, n) ==
    Stem(name)
        \o << Dot(IF n = 1 THEN ".undo" ELSE ".undo" \o ToString(n)) >>
        \o SufAtoms(name)

\* The path the one file moved by this step has come to.
Arrived == CHOOSE q \in DOMAIN fs' : q \notin DOMAIN fs

\* rename(n) is the n-th name to try: the step stored the file at want, or,
\* want being taken, at the first of rename(1), rename(2), ... not taken.
StoredAt(want, Rename(_, _)) ==
    /\ Cardinality(DOMAIN fs' \ DOMAIN fs) = 1
    /\ IF ~Exists(want, fs, dirs') THEN Arrived = want
       ELSE \E n \in 1..(Cardinality(DOMAIN fs) + Cardinality(dirs') + 1) :
               /\ Arrived = WithName(want, Rename(Name(want), n))
               /\ \A m \in 1..(n - 1) :
                     Exists(WithName(want, Rename(Name(want), m)), fs, dirs')

\* C2: no live move overwrites a file.  Every file a step does not move stays
\* at its path unchanged; a live organize move stores the file at the computed
\* destination or, that being taken, at the first unused "name (N).ext",
\* N >= 1; a live undo move stores it at the record's src or, that being
\* taken, at the first unused of "name.undo.ext", "name.undo2.ext", ...
C2_NoOverwrite ==
    [][ /\ \A p \in DOMAIN fs :
              \/ p \in DOMAIN fs' /\ fs'[p] = fs[p]
              \/ /\ pc = "organize" /\ p = files[i]
                 /\ p \notin DOMAIN fs'
              \/ /\ pc = "undo" /\ p = moves[j].dst
                 /\ p \notin DOMAIN fs'
        /\ (pc = "organize" /\ fs' # fs) =>
              /\ Len(moves_log') = Len(moves_log) + 1
              /\ StoredAt(moves_log'[Len(moves_log')].dst, NumberedName)
              /\ fs'[Arrived].id = fs[files[i]].id
        /\ (pc = "undo" /\ fs' # fs) =>
              /\ StoredAt(moves[j].src, UndoName)
              /\ fs'[Arrived].id = fs[moves[j].dst].id
      ]_vars

\* C2's case: a name taken twice over at organize ("a (2).txt" stored), and a
\* ".undo" name stored by undo.
C2_Witness ==
    /\ pc = "idle"
    /\ \E p \in DOMAIN fs : \E k \in 1..Len(Name(p)) : Name(p)[k] = Txt(" (2)")
    /\ \E p \in DOMAIN fs : \E k \in 1..Len(Name(p)) : Name(p)[k] = Dot(".undo")

\* C5: a dry run changes nothing on disk.  No step of a dry organize or a dry
\* undo (its start, its loop, its end) changes the files, the directories,
\* the log or the report.
C5_DryRunNoOp ==
    [][ (IF pc = "idle" THEN runs' # runs /\ args'.dry_run ELSE args.dry_run)
           => UNCHANGED << fs, dirs, log, report >> ]_vars

\* C5's case: a dry organize that found a duplicate to move has returned, and
\* the duplicates directory it would have made is not there.
C5_Witness ==
    /\ Returned("organize", TRUE)
    /\ duplicates # << >>
    /\ dup_dir \notin dirs
    /\ ~report.exists

\* C6: once a live undo that had a log with moves has returned, the log on
\* disk is an empty move list, which is the case where undo has nothing to
\* undo; whatever the loop skipped or renamed.
C6_UndoClearsLog ==
    (Returned("undo", FALSE) /\ moves # << >>)
        => log = [exists |-> TRUE, moves |-> << >>] /\ NothingToUndo

\* C6's case: a live undo has returned after skipping a record and after
\* storing a file under an ".undo" name.
C6_Witness ==
    /\ Returned("undo", FALSE)
    /\ reverted < Len(moves)
    /\ \E p \in DOMAIN fs : \E k \in 1..Len(Name(p)) : Name(p)[k] = Dot(".undo")

\* C10: files are conserved.  In every state the files under the target are
\* the files it was given, each once and with its content: no file is lost,
\* none is copied.
C10_Conservation ==
    /\ {[id |-> fs[p].id, c |-> fs[p].c] : p \in DOMAIN fs} = born
    /\ Cardinality(DOMAIN fs) = Cardinality(born)

\* C10's case: a live organize that renamed on a collision, then a live undo
\* that reverted moves, have both returned.
C10_Witness ==
    /\ Returned("undo", FALSE)
    /\ reverted >= 2
    /\ prev.args.command = "organize"
    /\ \E p \in DOMAIN fs : \E k \in 1..Len(Name(p)) : Name(p)[k] = Txt(" (1)")

\* The command before the running or last one was a live organize that
\* returned, and the user has put no file.
AfterLiveOrganize ==
    /\ prev.args.command = "organize"
    /\ ~prev.args.dry_run
    /\ prev.outcome = "returned"
    /\ ~External

DistinctContents(f) == \A p, q \in DOMAIN f : p # q => f[p].c # f[q].c

SameFileAt(p, f, g) ==
    /\ p \in DOMAIN f
    /\ p \in DOMAIN g
    /\ f[p].id = g[p].id
    /\ f[p].c = g[p].c

\* C1: undo inverts organize.  On a tree whose files have pairwise distinct
\* contents, after a live organize and then a live undo every file is at its
\* original path with its content, and the log is an empty move list.
C1_UndoInvertsOrganize ==
    (Returned("undo", FALSE) /\ AfterLiveOrganize /\ DistinctContents(prev.fs0))
        => /\ \A p \in DOMAIN prev.fs0 : SameFileAt(p, prev.fs0, fs)
           /\ log = [exists |-> TRUE, moves |-> << >>]

\* The category tree: the files below a directory named as a category.
InCategoryTree(p) ==
    Len(p) >= 2 /\ \E c \in Categories : p[1] = << Txt(c) >>

\* C4: a direct re-run moves nothing.  When a live organize returns and the
\* command before it was a live organize with the same flags that returned,
\* every file the first run left in the category tree is still at its path
\* and the second run's log has no record for it.
C4_RerunMovesNothing ==
    (Returned("organize", FALSE) /\ AfterLiveOrganize /\ prev.args = args)
        => \A p \in DOMAIN fs0 : InCategoryTree(p) =>
              /\ SameFileAt(p, fs0, fs)
              /\ \A k \in 1..Len(log.moves) : log.moves[k].src # p

\* C7: no per-file error escapes organize's loop.  Once organize is in its
\* loop it processes every file of the walk and returns, and a live run has
\* then written its log and its report.
C7_NoErrorEscapes ==
    (pc = "idle" /\ args.command = "organize")
        => /\ outcome = "returned"
           /\ i = Len(files) + 1
           /\ ~args.dry_run =>
                 log = [exists |-> TRUE, moves |-> moves_log] /\ report.exists

\* C8: organize leaves its control files and the duplicates directory alone.
\* While and after organize runs, every file that was named as the log or as
\* the report, or was below the duplicates directory at any depth, is at the
\* path it had when the command started, and no record of the run names it.
C8_HoldingAreaUntouched ==
    args.command = "organize" =>
        \A p \in DOMAIN fs0 :
            (Under(p, dup_dir) \/ Name(p) \in {LOG_NAME, REPORT_NAME}) =>
                /\ SameFileAt(p, fs0, fs)
                /\ \A k \in 1..Len(moves_log) : moves_log[k].src # p

\* C9: the log is accurate.  After a live organize has returned, for every
\* record of the log the file that was at src when the run started is at dst,
\* and nothing is at src.
C9_LogAccurate ==
    Returned("organize", FALSE) =>
        \A k \in 1..Len(log.moves) :
            /\ log.moves[k].src \in DOMAIN fs0
            /\ log.moves[k].dst \in DOMAIN fs
            /\ fs[log.moves[k].dst].id = fs0[log.moves[k].src].id
            /\ log.moves[k].src \notin DOMAIN fs \/ External

\* The file that was at path p when the command started is now at Where(p).
Where(p) == CHOOSE q \in DOMAIN fs : fs[q].id = fs0[p].id

\* The k-th file of the walk got past the skip test and was hashed.
Hashed(k) == ~Skipped(files[k]) /\ fs0[files[k]].r

\* No hashed file before the k-th has its content.
FirstOfContent(k) ==
    \A m \in 1..(k - 1) : Hashed(m) => fs0[files[m]].c # fs0[files[k]].c

\* C3 as stated: after a live organize has returned, of any two hashed files
\* with the same content and distinct names the one enumerated first is in
\* the category tree and the other is at duplicates/<its original filename>.
C3_ExactlyOneUnderOriginalName ==
    Returned("organize", FALSE) =>
        \A a, b \in 1..Len(files) :
            (/\ a < b /\ Hashed(a) /\ Hashed(b)
             /\ fs0[files[a]].c = fs0[files[b]].c
             /\ Name(files[a]) # Name(files[b]))
                => /\ InCategoryTree(Where(files[a]))
                   /\ Where(files[b]) = Append(dup_dir, Name(files[b]))

\* C3: duplicates are set aside.  After a live organize has returned, the
\* first enumerated hashed file of each content is in the category tree, and
\* every later hashed file of that content is directly in the duplicates
\* directory, under its original filename or under a "name (N).ext" of it;
\* the report's summary counts the first files only, by category, and its
\* duplicates_moved counts the later ones.
C3_DuplicatesSetAside ==
    Returned("organize", FALSE) =>
        /\ \A k \in 1..Len(files) : Hashed(k) =>
              IF FirstOfContent(k) THEN InCategoryTree(Where(files[k]))
              ELSE \/ Where(files[k]) = Append(dup_dir, Name(files[k]))
                   \/ \E n \in 1..Cardinality(DOMAIN fs) :
                         Where(files[k]) =
                             Append(dup_dir, NumberedName(Name(files[k]), n))
        /\ \A c \in Categories :
              report.summary[c] =
                  Cardinality({k \in 1..Len(files) :
                      /\ Hashed(k) /\ FirstOfContent(k)
                      /\ detect_category(files[k]) = c})
        /\ report.duplicates_moved =
              Cardinality({k \in 1..Len(files) : Hashed(k) /\ ~FirstOfContent(k)})

\* C3's case: a live organize has returned after moving a duplicate whose
\* name was taken in the duplicates directory, so it is there as "name (1).ext".
C3_Witness ==
    /\ Returned("organize", FALSE)
    /\ ~External
    /\ \E k \in 1..Len(files) :
          /\ Hashed(k) /\ ~FirstOfContent(k)
          /\ Where(files[k]) = Append(dup_dir, NumberedName(Name(files[k]), 1))
          /\ Append(dup_dir, Name(files[k])) \in DOMAIN fs0

====
